---- MODULE Spec2Model ----
(***************************************************************************)
(* Spotify video domain detector: the two-phase traffic classifier.        *)
(* Two variants of the program are modelled side by side:                  *)
(*   "size"    - the size-heuristic variant (src/unnamed/part_001)         *)
(*   "pattern" - the pattern-based variant  (src/index.js)                 *)
(* A JavaScript string is held in the state as a TLA+ string; Chars gives   *)
(* its characters, and String.prototype.includes / endsWith / toLowerCase, *)
(* URL parsing and parseInt are computed on those, character by character. *)
(***************************************************************************)
EXTENDS Integers, Sequences, FiniteSets, Bags, TLC

----------------------------------------------------------------------------
(* JavaScript string primitives *)

\* s.startsWith(p)
StartsWith(s, p) == Len(p) <= Len(s) /\ SubSeq(s, 1, Len(p)) = p

\* s.endsWith(p)
EndsWith(s, p) ==
  Len(p) <= Len(s) /\ SubSeq(s, Len(s) - Len(p) + 1, Len(s)) = p

\* s.includes(p)
Includes(s, p) ==
  \E i \in 1..(Len(s) - Len(p) + 1) : SubSeq(s, i, i + Len(p) - 1) = p


UpperCase ==
  << "A","B","C","D","E","F","G","H","I","J","K","L","M",
     "N","O","P","Q","R","S","T","U","V","W","X","Y","Z" >>
LowerCase ==
  << "a","b","c","d","e","f","g","h","i","j","k","l","m",
     "n","o","p","q","r","s","t","u","v","w","x","y","z" >>

\* s.toLowerCase() on ASCII
LowerChar(c) ==
  IF \E k \in 1..26 : UpperCase[k] = c
    THEN LowerCase[CHOOSE k \in 1..26 : UpperCase[k] = c]
    ELSE c
ToLowerCase(s) == [i \in 1..Len(s) |-> LowerChar(s[i])]

Digits == << "0","1","2","3","4","5","6","7","8","9" >>
DigitVal(c) == (CHOOSE k \in 1..10 : Digits[k] = c) - 1

\* index of the first character of s, at or after position from, that is in
\* stops; Len(s) + 1 when there is none
FirstOf(s, from, stops) ==
  IF \E i \in from..Len(s) : s[i] \in stops
    THEN CHOOSE i \in from..Len(s) :
           s[i] \in stops /\ \A j \in from..(i - 1) : s[j] \notin stops
    ELSE Len(s) + 1

\* value of a run of decimal digits
RECURSIVE DigitsValue(_)
DigitsValue(ds) ==
  IF ds = << >> THEN 0
  ELSE 10 * DigitsValue(SubSeq(ds, 1, Len(ds) - 1)) + DigitVal(ds[Len(ds)])

\* parseInt(s, 10): skip leading white space, read an optional sign, then the
\* longest run of digits; NaN when that run is empty
ParseInt(s) ==
  LET start == FirstOf(s, 1, {s[i] : i \in 1..Len(s)} \ {" "})
      signed == start <= Len(s) /\ s[start] \in {"+", "-"}
      first == IF signed THEN start + 1 ELSE start
      nondigits == {s[i] : i \in 1..Len(s)} \ {Digits[k] : k \in 1..10}
      stop == FirstOf(s, first, nondigits)
      run == SubSeq(s, first, stop - 1)
  IN IF run = << >> THEN [nan |-> TRUE, val |-> 0]
     ELSE [nan |-> FALSE,
           val |-> IF signed /\ s[start] = "-" THEN 0 - DigitsValue(run)
                   ELSE DigitsValue(run)]

----------------------------------------------------------------------------
(* Configuration of the size-heuristic variant *)

REFERENCE_VIDEO_DOMAINS ==
  << "video-fa.scdn.co", "video.spotifycdn.com", "video.akamaized.net",
     "video-ak.cdn.spotify.com", "video-ak.spotifycdn.com", "video-fa.sc",
     "video-akpcw.spotifycdn.com",
     "video-akpcw-cdn-spotify-com.akamaized.net",
     "video-ak.cdn.spotify.com.splitter-eip.akadns.net",
     "eip-ntt.video-ak.cdn.spotify.com.akahost.net",
     "video-fa.cdn.spotify.com", "video-fa-b.cdn.spotify.com" >>

\* defined in CONFIG and read nowhere in the program
REFERENCE_AUDIO_DOMAINS ==
  << "audio-fa.scdn.co", "audio.spotifycdn.com", "audio.akamaized.net",
     "audio-ak.cdn.spotify.com", "audio-ak.spotifycdn.com",
     "audio-akpcw.spotifycdn.com",
     "audio-akpcw-cdn-spotify-com.akamaized.net",
     "audio-ak.cdn.spotify.com.splitter-eip.akadns.net",
     "eip-ntt.audio-ak.cdn.spotify.com.akahost.net",
     "audio-fa.cdn.spotify.com", "audio-fa-b.cdn.spotify.com" >>

IGNORED_DOMAINS ==
  << "api-partner.spotify.com", "api.spotify.com", "accounts.spotify.com",
     "gue1-spclient.spotify.com", "sentry.io", "cookielaw.org",
     "google-analytics", "doubleclick.net", "analytics", "tracker",
     "telemetry", "log.spotify.com" >>

DEFINITELY_NON_VIDEO_EXTENSIONS ==
  << ".css", ".js", ".json", ".jpg", ".jpeg", ".png", ".gif", ".svg",
     ".woff", ".woff2", ".ttf", ".html", ".map", ".ico" >>

ACCEPTED_VIDEO_MIME_TYPES ==
  << "video/mp4", "video/webm", "video/ogg", "video/",
     "application/x-mpegurl", "application/vnd.apple.mpegurl",
     "application/dash+xml" >>

VIDEO_SIZE_THRESHOLD_BYTES == 50 * 1024 * 1024

----------------------------------------------------------------------------
(* Configuration of the pattern-based variant *)

KNOWN_SPOTIFY_VIDEO_DOMAINS ==
  << "video-fa.scdn.co", "video.spotifycdn.com", "video.akamaized.net",
     "video-ak.cdn.spotify.com", "video-fa.sc",
     "video-akpcw.spotifycdn.com",
     "video-akpcw-cdn-spotify-com.akamaized.net",
     "video-ak.cdn.spotify.com.splitter-eip.akadns.net",
     "eip-ntt.video-ak.cdn.spotify.com.akahost.net",
     "video-fa.cdn.spotify.com", "video-fa-b.cdn.spotify.com" >>

REQUIRED_VIDEO_PATH_SEGMENTS ==
  << "/segments/v1/", "/encodings/", "/profiles/" >>

\* the alternatives of VIDEO_EXTENSIONS_REGEX, each with its leading dot
VIDEO_EXTENSIONS ==
  << ".mp4", ".webm", ".m3u8", ".mpd" >>

ACCEPTED_VIDEO_MIME_TYPES_index ==
  << "video/mp4", "video/webm", "video/ogg", "video/",
     "application/x-mpegurl", "application/vnd.apple.mpegurl",
     "application/dash+xml" >>

SKIP_DOMAINS ==
  << "api-partner.spotify.com", "api.spotify.com", "accounts.spotify.com",
     "gue1-spclient.spotify.com" >>

IGNORE_DOMAINS ==
  << "sentry.io", "cookielaw.org", "google-analytics", "doubleclick.net",
     "analytics", "tracker", "telemetry", "log.spotify.com" >>

----------------------------------------------------------------------------
(* Inputs: the request URLs and the response headers *)

U_track == "https://video.akamaized.net/segments/v1/track1.mp4"
U_css == "https://video.akamaized.net/segments/v1/style.css"
U_css_analytics == "https://video.akamaized.net/segments/v1/analytics.css"
U_ignored_host == "https://analytics.example.com/a.mp4"
U_new_eu == "https://eu.video.akamaized.net/segments/v1/a.mp4"
U_new_us == "https://us.video.akamaized.net/profiles/b.webm"
U_unparseable == "/v/clip.mp4"

Urls ==
  { U_track,
    U_css,
    U_css_analytics,
    U_ignored_host,
    U_new_eu,
    U_new_us,
    U_unparseable }

\* a segment on a reference audio host, and a segment on a reference video
\* host whose path holds an ignore-list entry
U_audio_host == "https://audio-ak.spotifycdn.com/segments/v1/a.mp4"
U_analytics_path == "https://video.akamaized.net/segments/v1/analytics.mp4"

SegmentUrls == { U_audio_host, U_analytics_path, U_track, U_ignored_host }

\* requests that fail one check of the pattern-based request filter each:
\* no required path segment, a skip-list entry in the host, a host without
\* a known video domain, an extension that is not at the end of the path
U_no_segment == "https://video.akamaized.net/v/clip.mp4"
U_skip_host == "https://api.spotify.com.video.akamaized.net/segments/v1/a.mp4"
U_unknown_host == "https://cdn.example.com/segments/v1/a.mp4"
U_ext_inside == "https://video.akamaized.net/segments/v1/a.mp4/init.bin"

FilterUrls ==
  { U_track, U_new_eu, U_no_segment, U_skip_host, U_unknown_host,
    U_ext_inside }

AllUrls == Urls \cup SegmentUrls \cup FilterUrls

\* a host learned in an earlier session
LearnedHost == "eu.video.akamaized.net"

\* an entry of the domain file with a double quote in it
QuotedHost == "cdn\"x.example"

CT_mp4 == "video/mp4"
CT_hls_upper == "Application/X-MPEGURL"
CL_at_threshold == "52428800"
CL_above == "52428801"
CL_below == "1024"
CL_text == "abc"

----------------------------------------------------------------------------
(* The characters of every string the model handles *)

Chars ==
  ("https://video.akamaized.net/v/clip.mp4" :>
     <<"h","t","t","p","s",":","/","/","v","i","d","e","o",".","a","k","a","m","a","i","z","e","d",".","n","e","t","/","v","/","c","l","i","p",".","m","p","4">>) @@
  ("https://api.spotify.com.video.akamaized.net/segments/v1/a.mp4" :>
     <<"h","t","t","p","s",":","/","/","a","p","i",".","s","p","o","t","i","f","y",".","c","o","m",".","v","i","d","e","o",".","a","k","a","m","a","i","z","e","d",".","n","e","t","/","s","e","g","m","e","n","t","s","/","v","1","/","a",".","m","p","4">>) @@
  ("https://cdn.example.com/segments/v1/a.mp4" :>
     <<"h","t","t","p","s",":","/","/","c","d","n",".","e","x","a","m","p","l","e",".","c","o","m","/","s","e","g","m","e","n","t","s","/","v","1","/","a",".","m","p","4">>) @@
  ("https://video.akamaized.net/segments/v1/a.mp4/init.bin" :>
     <<"h","t","t","p","s",":","/","/","v","i","d","e","o",".","a","k","a","m","a","i","z","e","d",".","n","e","t","/","s","e","g","m","e","n","t","s","/","v","1","/","a",".","m","p","4","/","i","n","i","t",".","b","i","n">>) @@
  ("api.spotify.com.video.akamaized.net" :>
     <<"a","p","i",".","s","p","o","t","i","f","y",".","c","o","m",".","v","i","d","e","o",".","a","k","a","m","a","i","z","e","d",".","n","e","t">>) @@
  ("cdn.example.com" :>
     <<"c","d","n",".","e","x","a","m","p","l","e",".","c","o","m">>) @@
  ("domain" :>
     <<"d","o","m","a","i","n">>) @@
  ("cdn\"x.example" :>
     <<"c","d","n","\"","x",".","e","x","a","m","p","l","e">>) @@
  ("audio-fa.scdn.co" :>
     <<"a","u","d","i","o","-","f","a",".","s","c","d","n",".","c","o">>) @@
  ("audio.spotifycdn.com" :>
     <<"a","u","d","i","o",".","s","p","o","t","i","f","y","c","d","n",".","c","o","m">>) @@
  ("audio.akamaized.net" :>
     <<"a","u","d","i","o",".","a","k","a","m","a","i","z","e","d",".","n","e","t">>) @@
  ("audio-ak.cdn.spotify.com" :>
     <<"a","u","d","i","o","-","a","k",".","c","d","n",".","s","p","o","t","i","f","y",".","c","o","m">>) @@
  ("audio-ak.spotifycdn.com" :>
     <<"a","u","d","i","o","-","a","k",".","s","p","o","t","i","f","y","c","d","n",".","c","o","m">>) @@
  ("audio-akpcw.spotifycdn.com" :>
     <<"a","u","d","i","o","-","a","k","p","c","w",".","s","p","o","t","i","f","y","c","d","n",".","c","o","m">>) @@
  ("audio-akpcw-cdn-spotify-com.akamaized.net" :>
     <<"a","u","d","i","o","-","a","k","p","c","w","-","c","d","n","-","s","p","o","t","i","f","y","-","c","o","m",".","a","k","a","m","a","i","z","e","d",".","n","e","t">>) @@
  ("audio-ak.cdn.spotify.com.splitter-eip.akadns.net" :>
     <<"a","u","d","i","o","-","a","k",".","c","d","n",".","s","p","o","t","i","f","y",".","c","o","m",".","s","p","l","i","t","t","e","r","-","e","i","p",".","a","k","a","d","n","s",".","n","e","t">>) @@
  ("eip-ntt.audio-ak.cdn.spotify.com.akahost.net" :>
     <<"e","i","p","-","n","t","t",".","a","u","d","i","o","-","a","k",".","c","d","n",".","s","p","o","t","i","f","y",".","c","o","m",".","a","k","a","h","o","s","t",".","n","e","t">>) @@
  ("audio-fa.cdn.spotify.com" :>
     <<"a","u","d","i","o","-","f","a",".","c","d","n",".","s","p","o","t","i","f","y",".","c","o","m">>) @@
  ("audio-fa-b.cdn.spotify.com" :>
     <<"a","u","d","i","o","-","f","a","-","b",".","c","d","n",".","s","p","o","t","i","f","y",".","c","o","m">>) @@
  ("https://audio-ak.spotifycdn.com/segments/v1/a.mp4" :>
     <<"h","t","t","p","s",":","/","/","a","u","d","i","o","-","a","k",".","s","p","o","t","i","f","y","c","d","n",".","c","o","m","/","s","e","g","m","e","n","t","s","/","v","1","/","a",".","m","p","4">>) @@
  ("https://video.akamaized.net/segments/v1/analytics.mp4" :>
     <<"h","t","t","p","s",":","/","/","v","i","d","e","o",".","a","k","a","m","a","i","z","e","d",".","n","e","t","/","s","e","g","m","e","n","t","s","/","v","1","/","a","n","a","l","y","t","i","c","s",".","m","p","4">>) @@
  ("video-fa.scdn.co" :>
     <<"v","i","d","e","o","-","f","a",".","s","c","d","n",".","c","o">>) @@
  ("video.spotifycdn.com" :>
     <<"v","i","d","e","o",".","s","p","o","t","i","f","y","c","d","n",".","c","o","m">>) @@
  ("video.akamaized.net" :>
     <<"v","i","d","e","o",".","a","k","a","m","a","i","z","e","d",".","n","e","t">>) @@
  ("video-ak.cdn.spotify.com" :>
     <<"v","i","d","e","o","-","a","k",".","c","d","n",".","s","p","o","t","i","f","y",".","c","o","m">>) @@
  ("video-ak.spotifycdn.com" :>
     <<"v","i","d","e","o","-","a","k",".","s","p","o","t","i","f","y","c","d","n",".","c","o","m">>) @@
  ("video-fa.sc" :>
     <<"v","i","d","e","o","-","f","a",".","s","c">>) @@
  ("video-akpcw.spotifycdn.com" :>
     <<"v","i","d","e","o","-","a","k","p","c","w",".","s","p","o","t","i","f","y","c","d","n",".","c","o","m">>) @@
  ("video-akpcw-cdn-spotify-com.akamaized.net" :>
     <<"v","i","d","e","o","-","a","k","p","c","w","-","c","d","n","-","s","p","o","t","i","f","y","-","c","o","m",".","a","k","a","m","a","i","z","e","d",".","n","e","t">>) @@
  ("video-ak.cdn.spotify.com.splitter-eip.akadns.net" :>
     <<"v","i","d","e","o","-","a","k",".","c","d","n",".","s","p","o","t","i","f","y",".","c","o","m",".","s","p","l","i","t","t","e","r","-","e","i","p",".","a","k","a","d","n","s",".","n","e","t">>) @@
  ("eip-ntt.video-ak.cdn.spotify.com.akahost.net" :>
     <<"e","i","p","-","n","t","t",".","v","i","d","e","o","-","a","k",".","c","d","n",".","s","p","o","t","i","f","y",".","c","o","m",".","a","k","a","h","o","s","t",".","n","e","t">>) @@
  ("video-fa.cdn.spotify.com" :>
     <<"v","i","d","e","o","-","f","a",".","c","d","n",".","s","p","o","t","i","f","y",".","c","o","m">>) @@
  ("video-fa-b.cdn.spotify.com" :>
     <<"v","i","d","e","o","-","f","a","-","b",".","c","d","n",".","s","p","o","t","i","f","y",".","c","o","m">>) @@
  ("api-partner.spotify.com" :>
     <<"a","p","i","-","p","a","r","t","n","e","r",".","s","p","o","t","i","f","y",".","c","o","m">>) @@
  ("api.spotify.com" :>
     <<"a","p","i",".","s","p","o","t","i","f","y",".","c","o","m">>) @@
  ("accounts.spotify.com" :>
     <<"a","c","c","o","u","n","t","s",".","s","p","o","t","i","f","y",".","c","o","m">>) @@
  ("gue1-spclient.spotify.com" :>
     <<"g","u","e","1","-","s","p","c","l","i","e","n","t",".","s","p","o","t","i","f","y",".","c","o","m">>) @@
  ("sentry.io" :>
     <<"s","e","n","t","r","y",".","i","o">>) @@
  ("cookielaw.org" :>
     <<"c","o","o","k","i","e","l","a","w",".","o","r","g">>) @@
  ("google-analytics" :>
     <<"g","o","o","g","l","e","-","a","n","a","l","y","t","i","c","s">>) @@
  ("doubleclick.net" :>
     <<"d","o","u","b","l","e","c","l","i","c","k",".","n","e","t">>) @@
  ("analytics" :>
     <<"a","n","a","l","y","t","i","c","s">>) @@
  ("tracker" :>
     <<"t","r","a","c","k","e","r">>) @@
  ("telemetry" :>
     <<"t","e","l","e","m","e","t","r","y">>) @@
  ("log.spotify.com" :>
     <<"l","o","g",".","s","p","o","t","i","f","y",".","c","o","m">>) @@
  (".css" :>
     <<".","c","s","s">>) @@
  (".js" :>
     <<".","j","s">>) @@
  (".json" :>
     <<".","j","s","o","n">>) @@
  (".jpg" :>
     <<".","j","p","g">>) @@
  (".jpeg" :>
     <<".","j","p","e","g">>) @@
  (".png" :>
     <<".","p","n","g">>) @@
  (".gif" :>
     <<".","g","i","f">>) @@
  (".svg" :>
     <<".","s","v","g">>) @@
  (".woff" :>
     <<".","w","o","f","f">>) @@
  (".woff2" :>
     <<".","w","o","f","f","2">>) @@
  (".ttf" :>
     <<".","t","t","f">>) @@
  (".html" :>
     <<".","h","t","m","l">>) @@
  (".map" :>
     <<".","m","a","p">>) @@
  (".ico" :>
     <<".","i","c","o">>) @@
  ("video/mp4" :>
     <<"v","i","d","e","o","/","m","p","4">>) @@
  ("video/webm" :>
     <<"v","i","d","e","o","/","w","e","b","m">>) @@
  ("video/ogg" :>
     <<"v","i","d","e","o","/","o","g","g">>) @@
  ("video/" :>
     <<"v","i","d","e","o","/">>) @@
  ("application/x-mpegurl" :>
     <<"a","p","p","l","i","c","a","t","i","o","n","/","x","-","m","p","e","g","u","r","l">>) @@
  ("application/vnd.apple.mpegurl" :>
     <<"a","p","p","l","i","c","a","t","i","o","n","/","v","n","d",".","a","p","p","l","e",".","m","p","e","g","u","r","l">>) @@
  ("application/dash+xml" :>
     <<"a","p","p","l","i","c","a","t","i","o","n","/","d","a","s","h","+","x","m","l">>) @@
  ("/segments/v1/" :>
     <<"/","s","e","g","m","e","n","t","s","/","v","1","/">>) @@
  ("/encodings/" :>
     <<"/","e","n","c","o","d","i","n","g","s","/">>) @@
  ("/profiles/" :>
     <<"/","p","r","o","f","i","l","e","s","/">>) @@
  (".mp4" :>
     <<".","m","p","4">>) @@
  (".webm" :>
     <<".","w","e","b","m">>) @@
  (".m3u8" :>
     <<".","m","3","u","8">>) @@
  (".mpd" :>
     <<".","m","p","d">>) @@
  ("https://video.akamaized.net/segments/v1/track1.mp4" :>
     <<"h","t","t","p","s",":","/","/","v","i","d","e","o",".","a","k","a","m","a","i","z","e","d",".","n","e","t","/","s","e","g","m","e","n","t","s","/","v","1","/","t","r","a","c","k","1",".","m","p","4">>) @@
  ("https://video.akamaized.net/segments/v1/style.css" :>
     <<"h","t","t","p","s",":","/","/","v","i","d","e","o",".","a","k","a","m","a","i","z","e","d",".","n","e","t","/","s","e","g","m","e","n","t","s","/","v","1","/","s","t","y","l","e",".","c","s","s">>) @@
  ("https://video.akamaized.net/segments/v1/analytics.css" :>
     <<"h","t","t","p","s",":","/","/","v","i","d","e","o",".","a","k","a","m","a","i","z","e","d",".","n","e","t","/","s","e","g","m","e","n","t","s","/","v","1","/","a","n","a","l","y","t","i","c","s",".","c","s","s">>) @@
  ("https://analytics.example.com/a.mp4" :>
     <<"h","t","t","p","s",":","/","/","a","n","a","l","y","t","i","c","s",".","e","x","a","m","p","l","e",".","c","o","m","/","a",".","m","p","4">>) @@
  ("https://eu.video.akamaized.net/segments/v1/a.mp4" :>
     <<"h","t","t","p","s",":","/","/","e","u",".","v","i","d","e","o",".","a","k","a","m","a","i","z","e","d",".","n","e","t","/","s","e","g","m","e","n","t","s","/","v","1","/","a",".","m","p","4">>) @@
  ("https://us.video.akamaized.net/profiles/b.webm" :>
     <<"h","t","t","p","s",":","/","/","u","s",".","v","i","d","e","o",".","a","k","a","m","a","i","z","e","d",".","n","e","t","/","p","r","o","f","i","l","e","s","/","b",".","w","e","b","m">>) @@
  ("/v/clip.mp4" :>
     <<"/","v","/","c","l","i","p",".","m","p","4">>) @@
  ("analytics.example.com" :>
     <<"a","n","a","l","y","t","i","c","s",".","e","x","a","m","p","l","e",".","c","o","m">>) @@
  ("eu.video.akamaized.net" :>
     <<"e","u",".","v","i","d","e","o",".","a","k","a","m","a","i","z","e","d",".","n","e","t">>) @@
  ("us.video.akamaized.net" :>
     <<"u","s",".","v","i","d","e","o",".","a","k","a","m","a","i","z","e","d",".","n","e","t">>) @@
  ("unknown" :>
     <<"u","n","k","n","o","w","n">>) @@
  ("Application/X-MPEGURL" :>
     <<"A","p","p","l","i","c","a","t","i","o","n","/","X","-","M","P","E","G","U","R","L">>) @@
  ("52428800" :>
     <<"5","2","4","2","8","8","0","0">>) @@
  ("52428801" :>
     <<"5","2","4","2","8","8","0","1">>) @@
  ("1024" :>
     <<"1","0","2","4">>) @@
  ("abc" :>
     <<"a","b","c">>) @@
  ("" :>
     << >>) @@
  ("0" :>
     <<"0">>) @@
  ("https://" :>
     <<"h","t","t","p","s",":","/","/">>) @@
  ("http://" :>
     <<"h","t","t","p",":","/","/">>)

\* the string with the given characters
Name(t) == CHOOSE s \in DOMAIN Chars : Chars[s] = t

\* list.some((p) => s.includes(p)) and list.some((p) => s.endsWith(p)), for
\* the characters t of s
SomeIncluded(list, t) == \E k \in 1..Len(list) : Includes(t, Chars[list[k]])
SomeEndsWith(list, t) == \E k \in 1..Len(list) : EndsWith(t, Chars[list[k]])

\* a response as the handlers see it: res.status() and the two headers they
\* read; a header is absent (<< >>) or present with a value (<< value >>)
Response(status, ct, cl) ==
  [status |-> status, headers |-> [ct |-> ct, cl |-> cl]]

Responses ==
  { Response(200, << CT_mp4 >>, << CL_above >>),
    Response(200, << CT_mp4 >>, << CL_below >>),
    Response(200, << CT_mp4 >>, << CL_at_threshold >>),
    Response(200, << CT_mp4 >>, << CL_text >>),
    Response(206, << CT_hls_upper >>, << >>),
    Response(404, << CT_mp4 >>, << CL_above >>),
    Response(204, << CT_mp4 >>, << CL_above >>),
    Response(200, << >>, << CL_above >>) }

\* how a request reaches the listener: not yet resolved ("no"), or already
\* resolved by someone else ("other": continued or aborted, the listener
\* cannot tell which)
PreHandled == {"no", "other"}

\* bound on the number of intercepted requests in a session
MaxRequests == 2

ToSet(seq) == {seq[i] : i \in 1..Len(seq)}

\* header || dflt : an absent header and an empty one both give the default
OrElse(header, dflt) ==
  IF header = << >> THEN dflt ELSE IF header[1] = "" THEN dflt ELSE header[1]

----------------------------------------------------------------------------
(* new URL(url) for http(s) URLs without port or credentials *)

SchemeLen(url) ==
  IF StartsWith(Chars[url], Chars["https://"]) THEN Len(Chars["https://"])
  ELSE IF StartsWith(Chars[url], Chars["http://"]) THEN Len(Chars["http://"])
  ELSE 0

\* new URL(url) does not throw
UrlParses(url) ==
  /\ SchemeLen(url) > 0
  /\ Len(Chars[url]) > SchemeLen(url)
  /\ Chars[url][SchemeLen(url) + 1] \notin {"/", "?", "#"}

AfterScheme(url) == SubSeq(Chars[url], SchemeLen(url) + 1, Len(Chars[url]))

\* the characters of new URL(url).hostname
hostname(url) ==
  LET a == AfterScheme(url)
      e == FirstOf(a, 1, {"/", "?", "#"})
  IN ToLowerCase(SubSeq(a, 1, e - 1))

\* the characters of new URL(url).pathname
pathname(url) ==
  LET a == AfterScheme(url)
      e == FirstOf(a, 1, {"/", "?", "#"})
      q == FirstOf(a, e, {"?", "#"})
      p == SubSeq(a, e, q - 1)
  IN IF p = << >> THEN << "/" >> ELSE p

----------------------------------------------------------------------------
(* utils of the size-heuristic variant *)

getDomain(url) == IF UrlParses(url) THEN Name(hostname(url)) ELSE "unknown"

isDefinitelyNotVideoRequest(url) ==
  IF UrlParses(url)
    THEN SomeEndsWith(DEFINITELY_NON_VIDEO_EXTENSIONS,
                      ToLowerCase(pathname(url)))
    ELSE FALSE

\* faulty check: the status is not looked at
isVideoResponse_anyStatus(res) ==
  SomeIncluded(ACCEPTED_VIDEO_MIME_TYPES,
               ToLowerCase(Chars[OrElse(res.headers.ct, "")]))

isVideoResponse(res) ==
  IF res.status # 200 /\ res.status # 206 THEN FALSE
  ELSE SomeIncluded(ACCEPTED_VIDEO_MIME_TYPES,
                    ToLowerCase(Chars[OrElse(res.headers.ct, "")]))

\* parseInt(res.headers()["content-length"] || "0", 10)
contentLength(res) == ParseInt(Chars[OrElse(res.headers.cl, "0")])

\* faulty comparison: the length converted to kilobytes against a threshold
\* in bytes
isAboveThreshold_kilobytes(res) ==
  /\ ~ contentLength(res).nan
  /\ contentLength(res).val \div 1024 > VIDEO_SIZE_THRESHOLD_BYTES

\* faulty comparison: a length equal to the threshold counts as video
isAboveThreshold_atLeast(res) ==
  /\ ~ contentLength(res).nan
  /\ contentLength(res).val >= VIDEO_SIZE_THRESHOLD_BYTES

\* contentLength > CONFIG.VIDEO_SIZE_THRESHOLD_BYTES (false for NaN)
isAboveThreshold(res) ==
  /\ ~ contentLength(res).nan
  /\ contentLength(res).val > VIDEO_SIZE_THRESHOLD_BYTES

\* the persisted list as readJsonFile returns it
readJsonFile(f) ==
  IF f.kind \in {"missing", "empty", "invalid"}
    THEN [array |-> TRUE, items |-> {}]
    ELSE [array |-> f.kind = "array", items |-> f.items]

\* the file after writeJsonFile; a failed write is logged and leaves the file
writeJsonFile(f, data, ok) ==
  IF ok THEN [kind |-> "array", items |-> data] ELSE f

----------------------------------------------------------------------------
(* utils of the pattern-based variant *)

getDomain_index(url) ==
  IF UrlParses(url) THEN Name(hostname(url)) ELSE "unknown"

\* VIDEO_EXTENSIONS_REGEX.test(s), for the characters t of s: an extension,
\* in either case, followed by "?" or by the end of the string
testVideoExtension(t) ==
  \E k \in 1..Len(VIDEO_EXTENSIONS) :
    \E i \in 1..(Len(t) - Len(Chars[VIDEO_EXTENSIONS[k]]) + 1) :
      LET last == i + Len(Chars[VIDEO_EXTENSIONS[k]]) - 1
      IN /\ ToLowerCase(SubSeq(t, i, last)) = Chars[VIDEO_EXTENSIONS[k]]
         /\ IF last = Len(t) THEN TRUE ELSE t[last + 1] = "?"

\* faulty filter: the host is not compared with the known video domains
isLikelyVideoRequest_anyHost(url) ==
  IF ~ UrlParses(url) THEN FALSE
  ELSE IF SomeIncluded(SKIP_DOMAINS, hostname(url)) THEN FALSE
  ELSE IF ~ SomeIncluded(REQUIRED_VIDEO_PATH_SEGMENTS,
                         ToLowerCase(pathname(url))) THEN FALSE
  ELSE testVideoExtension(ToLowerCase(pathname(url)))

isLikelyVideoRequest(url) ==
  IF ~ UrlParses(url) THEN FALSE
  ELSE IF SomeIncluded(SKIP_DOMAINS, hostname(url)) THEN FALSE
  ELSE IF ~ SomeIncluded(KNOWN_SPOTIFY_VIDEO_DOMAINS, hostname(url)) THEN FALSE
  ELSE IF ~ SomeIncluded(REQUIRED_VIDEO_PATH_SEGMENTS,
                         ToLowerCase(pathname(url))) THEN FALSE
  ELSE testVideoExtension(ToLowerCase(pathname(url)))

isVideoResponse_index(res) ==
  IF (res.status < 200 \/ res.status >= 300) /\ res.status # 206 THEN FALSE
  ELSE SomeIncluded(ACCEPTED_VIDEO_MIME_TYPES_index,
                    ToLowerCase(Chars[OrElse(res.headers.ct, "")]))

readJsonFile_index(f) ==
  IF f.kind \in {"missing", "empty", "invalid"}
    THEN [array |-> TRUE, items |-> {}]
    ELSE [array |-> f.kind = "array", items |-> f.items]

writeJsonFile_index(f, data, ok) ==
  IF ok THEN [kind |-> "array", items |-> data] ELSE f

----------------------------------------------------------------------------
(* The utils applied to the inputs, evaluated once *)

domainOf == [u \in AllUrls |-> getDomain(u)]
notVideoRequestOf == [u \in AllUrls |-> isDefinitelyNotVideoRequest(u)]
videoResponseOf == [r \in Responses |-> isVideoResponse(r)]
aboveThresholdOf == [r \in Responses |-> isAboveThreshold(r)]
domainOf_index == [u \in AllUrls |-> getDomain_index(u)]
likelyVideoRequestOf == [u \in AllUrls |-> isLikelyVideoRequest(u)]
videoResponseOf_index == [r \in Responses |-> isVideoResponse_index(r)]

----------------------------------------------------------------------------
(* The intercepted request object: continue() and abort() take effect once *)
(* and throw when the request is already handled                           *)

NewRequest(url, pre) ==
  [url |-> url, handled |-> pre # "no", threw |-> FALSE,
   effects |-> IF pre = "no" THEN << >> ELSE << pre >>]

reqContinue(req) ==
  IF req.handled THEN [req EXCEPT !.threw = TRUE]
  ELSE [req EXCEPT !.handled = TRUE, !.threw = FALSE,
                   !.effects = Append(@, "continue")]

reqAbort(req) ==
  IF req.handled THEN [req EXCEPT !.threw = TRUE]
  ELSE [req EXCEPT !.handled = TRUE, !.threw = FALSE,
                   !.effects = Append(@, "abort")]

\* faulty resolution: the request is aborted instead of continued
safelyContinue_aborts(req) == [reqAbort(req) EXCEPT !.threw = FALSE]

\* try { await req.continue() } catch { }
safelyContinue(req) == [reqContinue(req) EXCEPT !.threw = FALSE]

\* what the network does with a request after its listener ran
Outcome(req) == IF req.effects = << >> THEN "stalled" ELSE req.effects[1]

----------------------------------------------------------------------------
(* State *)

VARIABLES
  variant,                 \* which program runs: "size" or "pattern"
  pc,                      \* "init", "running" or "exited"
  file,                    \* video_domains.json
  detectedDomains,
  knownAudioDomains,       \* size-heuristic variant only
  candidateVideoRequests,
  loggedThisSession,
  domainWriteQueue,        \* the last promise of the write chain (0: resolved)
  writes,                  \* the writes of the domain file, in creation order
  inflight,                \* bag of the URLs of requests on the network
  suspended,               \* bag of response handlers suspended at an await
  console,                 \* bag of printed notifications
  nreq,                    \* number of intercepted requests so far
  startOrder,              \* history: the writes in the order they started
  ev                       \* history: the event handled by the last step

vars ==
  << variant, pc, file, detectedDomains, knownAudioDomains,
     candidateVideoRequests, loggedThisSession, domainWriteQueue, writes,
     inflight, suspended, console, nreq, startOrder, ev >>

\* the hosts an earlier session may have persisted
PersistedLists == SUBSET {LearnedHost}

Files ==
  {[kind |-> k, items |-> {}] : k \in {"missing", "empty", "invalid", "nonarray"}}
    \cup {[kind |-> "array", items |-> s] : s \in PersistedLists}

NoEv ==
  [op |-> "none", url |-> "", domain |-> "",
   res |-> Response(0, << >>, << >>), pre |-> "no", effects |-> << >>,
   cand |-> FALSE, vid |-> FALSE, aud |-> FALSE, logd |-> FALSE,
   prev |-> {}, out |-> {}]

Msg(m, domain) == SetToBag({[msg |-> m, domain |-> domain]})

Init ==
  /\ variant \in {"size", "pattern"}
  /\ pc = "init"
  /\ file \in Files
  /\ detectedDomains = {}
  /\ knownAudioDomains = {}
  /\ candidateVideoRequests = {}
  /\ loggedThisSession = {}
  /\ domainWriteQueue = 0
  /\ writes = << >>
  /\ inflight = EmptyBag
  /\ suspended = EmptyBag
  /\ console = EmptyBag
  /\ nreq = 0
  /\ startOrder = << >>
  /\ ev = NoEv

----------------------------------------------------------------------------
(* Size-heuristic variant *)

\* the listeners are attached: the process runs, or shutdown() has set
\* isShuttingDown and waits for the browser
Monitoring == pc \in {"running", "closing"}

\* faulty merge: the reference domains replace the persisted list
merged_referenceOnly(existingList) == ToSet(REFERENCE_VIDEO_DOMAINS)

\* the persisted entries and the reference domains, added to detectedDomains
merged(existingList) ==
  existingList.items \cup ToSet(REFERENCE_VIDEO_DOMAINS)

\* init(): load the persisted list, add the reference domains, write back.
\* A parsed value that is not an array has no forEach: init rethrows and
\* run() shuts the process down.
init(ok) ==
  /\ variant = "size"
  /\ pc = "init"
  /\ LET existingList == readJsonFile(file)
     IN IF ~ existingList.array
          THEN /\ pc' = "exited"
               /\ UNCHANGED << detectedDomains, file >>
          ELSE /\ detectedDomains' = merged(existingList)
               /\ file' = writeJsonFile(file, detectedDomains', ok)
               /\ pc' = "running"
  /\ ev' = [NoEv EXCEPT !.op = "init"]
  /\ UNCHANGED << variant, knownAudioDomains, candidateVideoRequests,
                  loggedThisSession, domainWriteQueue, writes, inflight,
                  suspended, console, nreq, startOrder >>

\* the request is ignored: its URL includes an ignore-list entry
ignoredOf == [u \in AllUrls |-> SomeIncluded(IGNORED_DOMAINS, Chars[u])]
\* faulty check: the host must equal an ignore-list entry
isIgnored_exactHost(url) == getDomain(url) \in ToSet(IGNORED_DOMAINS)

isIgnored(url) == ignoredOf[url]

handleRequest(url, pre) ==
  /\ variant = "size"
  /\ Monitoring
  /\ nreq < MaxRequests
  /\ LET req == NewRequest(url, pre)
         done == safelyContinue(req)
     IN /\ candidateVideoRequests' =
             IF isIgnored(url) THEN candidateVideoRequests
             ELSE IF notVideoRequestOf[url]
               THEN candidateVideoRequests
             ELSE candidateVideoRequests \cup {url}
        /\ inflight' =
             IF Outcome(done) \in {"continue", "other"}
               THEN inflight (+) SetToBag({url})
               ELSE inflight
        /\ ev' = [NoEv EXCEPT !.op = "request", !.url = url, !.pre = pre,
                              !.effects = done.effects,
                              !.cand = url \in candidateVideoRequests]
  /\ nreq' = nreq + 1
  /\ UNCHANGED << variant, pc, file, detectedDomains, knownAudioDomains,
                  loggedThisSession, domainWriteQueue, writes, suspended,
                  console, startOrder >>

\* faulty queueing: the write is chained to the queue's initial, resolved
\* promise instead of the last write queued
chainedAfter_resolved == IF domainWriteQueue = 0 THEN domainWriteQueue ELSE 0

\* domainWriteQueue.then(...): the new write waits for the last one queued
chainedAfter == domainWriteQueue

\* logDomain(domain): no await inside, so it runs to completion
logDomain(domain) ==
  /\ IF domain \notin detectedDomains
       THEN /\ detectedDomains' = detectedDomains \cup {domain}
            /\ console' = console (+) Msg("large", domain) (+) Msg("new", domain)
            /\ writes' = Append(writes, [pred |-> chainedAfter,
                                         state |-> "pending",
                                         data |-> {},
                                         domain |-> domain])
            /\ domainWriteQueue' = Len(writes) + 1
            /\ UNCHANGED startOrder
       ELSE /\ console' =
                 IF domain \notin loggedThisSession
                   THEN console (+) Msg("large", domain) (+) Msg("known", domain)
                   ELSE console (+) Msg("large", domain)
            /\ UNCHANGED << detectedDomains, writes, domainWriteQueue,
                            startOrder >>
  /\ loggedThisSession' = loggedThisSession \cup {domain}

\* faulty guard: every response is looked at
isCandidate_always(url) == TRUE

\* handleResponse looks only at previously flagged requests
isCandidate(url) == url \in candidateVideoRequests

\* faulty step 1: the audio set is never consulted
isKnownAudio_skipped(domain) == FALSE

\* step 1 of handleResponse: the host is a known audio domain
isKnownAudio(domain) == domain \in knownAudioDomains

\* faulty step 2: the video set is never consulted
isKnownVideo_skipped(domain) == FALSE

\* faulty step 2: the shortcut is taken only for a host already logged in
\* this session
isKnownVideo_loggedOnly(domain) ==
  domain \in detectedDomains /\ domain \in loggedThisSession

\* step 2 of handleResponse: the host is a known video domain
isKnownVideo(domain) == domain \in detectedDomains

handleResponse(url, res) ==
  /\ variant = "size"
  /\ Monitoring
  /\ BagIn(url, inflight)
  /\ inflight' = inflight (-) SetToBag({url})
  /\ LET domain == domainOf[url]
     IN /\ ev' = [NoEv EXCEPT !.op = "response", !.url = url,
                              !.domain = domain, !.res = res,
                              !.cand = url \in candidateVideoRequests,
                              !.vid = domain \in detectedDomains,
                              !.aud = domain \in knownAudioDomains,
                              !.logd = domain \in loggedThisSession]
        /\ IF ~ isCandidate(url)
             THEN UNCHANGED << detectedDomains, knownAudioDomains,
                               candidateVideoRequests, loggedThisSession,
                               domainWriteQueue, writes, suspended, console,
                               startOrder >>
           ELSE IF isKnownAudio(domain)
             THEN /\ candidateVideoRequests' = candidateVideoRequests \ {url}
                  /\ UNCHANGED << detectedDomains, knownAudioDomains,
                                  loggedThisSession, domainWriteQueue, writes,
                                  suspended, console, startOrder >>
           ELSE IF isKnownVideo(domain)
             THEN /\ console' = IF domain \notin loggedThisSession
                                  THEN console (+) Msg("known", domain)
                                  ELSE console
                  /\ loggedThisSession' = loggedThisSession \cup {domain}
                  /\ candidateVideoRequests' = candidateVideoRequests \ {url}
                  /\ UNCHANGED << detectedDomains, knownAudioDomains,
                                  domainWriteQueue, writes, suspended,
                                  startOrder >>
           ELSE IF videoResponseOf[res]
             THEN IF aboveThresholdOf[res]
                    THEN \* await logDomain(domain): the delete follows later
                         /\ logDomain(domain)
                         /\ suspended' =
                              suspended (+) SetToBag({[k |-> "delete",
                                                       url |-> url,
                                                       domain |-> domain,
                                                       w |-> 0]})
                         /\ UNCHANGED << knownAudioDomains,
                                         candidateVideoRequests >>
                    ELSE /\ knownAudioDomains' = knownAudioDomains \cup {domain}
                         /\ console' = console (+) Msg("audio", domain)
                         /\ candidateVideoRequests' =
                              candidateVideoRequests \ {url}
                         /\ UNCHANGED << detectedDomains, loggedThisSession,
                                         domainWriteQueue, writes, suspended,
                                         startOrder >>
           ELSE /\ candidateVideoRequests' = candidateVideoRequests \ {url}
                /\ UNCHANGED << detectedDomains, knownAudioDomains,
                                loggedThisSession, domainWriteQueue, writes,
                                suspended, console, startOrder >>
  /\ UNCHANGED << variant, pc, file, nreq >>

\* a suspended response handler resumes at its last statement:
\* candidateVideoRequests.delete(url)
resumeResponse(c) ==
  /\ Monitoring
  /\ BagIn(c, suspended)
  /\ c.k = "delete"
  /\ suspended' = suspended (-) SetToBag({c})
  /\ candidateVideoRequests' = candidateVideoRequests \ {c.url}
  /\ ev' = [NoEv EXCEPT !.op = "resume", !.url = c.url, !.domain = c.domain]
  /\ UNCHANGED << variant, pc, file, detectedDomains, knownAudioDomains,
                  loggedThisSession, domainWriteQueue, writes, inflight,
                  console, nreq, startOrder >>

\* faulty cleanup: the URL of a failed request stays in the tracker
deleteCandidate_kept(url) == candidateVideoRequests

\* candidateVideoRequests.delete(requestUrl)
deleteCandidate(url) == candidateVideoRequests \ {url}

handleFailedRequest(url) ==
  /\ variant = "size"
  /\ Monitoring
  /\ BagIn(url, inflight)
  /\ inflight' = inflight (-) SetToBag({url})
  /\ candidateVideoRequests' = deleteCandidate(url)
  /\ ev' = [NoEv EXCEPT !.op = "requestfailed", !.url = url,
                        !.cand = url \in candidateVideoRequests]
  /\ UNCHANGED << variant, pc, file, detectedDomains, knownAudioDomains,
                  loggedThisSession, domainWriteQueue, writes, suspended,
                  console, nreq, startOrder >>

\* faulty write: only the newly promoted host is written
snapshot_newOnly(i) == {writes[i].domain}

\* [...detectedDomains], evaluated when the queued callback runs
snapshot(i) == detectedDomains

\* a queued write starts once the promise it is chained to has settled; the
\* array written is [...detectedDomains] at that moment
writeStart(i) ==
  /\ Monitoring
  /\ i \in 1..Len(writes)
  /\ writes[i].state = "pending"
  /\ IF writes[i].pred = 0 THEN TRUE
     ELSE writes[writes[i].pred].state = "done"
  /\ writes' = [writes EXCEPT ![i].state = "running",
                              ![i].data = snapshot(i)]
  /\ startOrder' = Append(startOrder, i)
  /\ ev' = [NoEv EXCEPT !.op = "writeStart", !.domain = writes[i].domain]
  /\ UNCHANGED << variant, pc, file, detectedDomains, knownAudioDomains,
                  candidateVideoRequests, loggedThisSession, domainWriteQueue,
                  inflight, suspended, console, nreq >>

\* faulty error handling: a failed write rejects the promise of the chain
settled_rejected(ok) == IF ok THEN "done" ELSE "rejected"

\* try { await fs.writeFile(...) } catch { console.error(...) }: the promise
\* of writeJsonFile resolves whether the write succeeded or not
settled(ok) == "done"

\* fs.writeFile settles; writeJsonFile catches a failure, so the promise of
\* the write always resolves
writeFinish(i, ok) ==
  /\ Monitoring
  /\ i \in 1..Len(writes)
  /\ writes[i].state = "running"
  /\ writes' = [writes EXCEPT ![i].state = settled(ok)]
  /\ file' = IF variant = "size"
               THEN writeJsonFile(file, writes[i].data, ok)
               ELSE writeJsonFile_index(file, writes[i].data, ok)
  /\ ev' = [NoEv EXCEPT !.op = "writeFinish", !.domain = writes[i].domain,
                        !.effects = IF ok THEN << "written" >>
                                    ELSE << "failed" >>]
  /\ UNCHANGED << variant, pc, detectedDomains, knownAudioDomains,
                  candidateVideoRequests, loggedThisSession, domainWriteQueue,
                  inflight, suspended, console, nreq, startOrder >>

\* shutdown(), called on "q", Ctrl+C or SIGINT: sets isShuttingDown, removes
\* the stdin listeners and awaits browser.pages(); a second call returns at
\* once. The page listeners stay attached while it waits.
shutdown ==
  /\ variant = "size"
  /\ pc = "running"
  /\ pc' = "closing"
  /\ ev' = [NoEv EXCEPT !.op = "shutdown"]
  /\ UNCHANGED << variant, file, detectedDomains, knownAudioDomains,
                  candidateVideoRequests, loggedThisSession, domainWriteQueue,
                  writes, inflight, suspended, console, nreq, startOrder >>

\* the browser answered browser.pages(), the pages' close() and
\* browser.close() (or one of them rejected, which is caught): process.exit(0)
browserClosed ==
  /\ variant = "size"
  /\ pc = "closing"
  /\ pc' = "exited"
  /\ ev' = [NoEv EXCEPT !.op = "exit"]
  /\ UNCHANGED << variant, file, detectedDomains, knownAudioDomains,
                  candidateVideoRequests, loggedThisSession, domainWriteQueue,
                  writes, inflight, suspended, console, nreq, startOrder >>

\* The program is started again after process.exit: the module-level state
\* is constructed anew, the domain file is what the last session left, and
\* the writes the last session had not finished are gone with its process.
\* ev.prev keeps the confirmed-audio set the last session ended with.
restart ==
  /\ variant = "size"
  /\ pc = "exited"
  /\ pc' = "init"
  /\ detectedDomains' = {}
  /\ knownAudioDomains' = {}
  /\ candidateVideoRequests' = {}
  /\ loggedThisSession' = {}
  /\ domainWriteQueue' = 0
  /\ writes' = << >>
  /\ startOrder' = << >>
  /\ inflight' = EmptyBag
  /\ suspended' = EmptyBag
  /\ console' = EmptyBag
  /\ ev' = [NoEv EXCEPT !.op = "restart", !.prev = knownAudioDomains]
  /\ UNCHANGED << variant, file, nreq >>

\* faulty wrapper: the error is rethrown, the rejection of the listener's
\* promise is unhandled and ends the process
caught_rethrown == "exited"

\* catch (error) { console.error(...) }: the listener's promise resolves
caught == pc

\* wrapEventHandler(handler) when the handler raises at its first statement
\* (the accessor of the event object throws): the error is logged and
\* nothing else happens. The request of a "request" event is then never
\* resolved and gets no response.
handlerRaised(kind, url) ==
  /\ variant = "size"
  /\ Monitoring
  /\ IF kind = "request"
       THEN /\ nreq < MaxRequests
            /\ nreq' = nreq + 1
            /\ UNCHANGED inflight
       ELSE /\ BagIn(url, inflight)
            /\ inflight' = inflight (-) SetToBag({url})
            /\ UNCHANGED nreq
  /\ pc' = caught
  /\ console' = console (+) Msg("error", kind)
  /\ ev' = [NoEv EXCEPT !.op = "raised", !.url = url, !.effects = << kind >>]
  /\ UNCHANGED << variant, file, detectedDomains, knownAudioDomains,
                  candidateVideoRequests, loggedThisSession, domainWriteQueue,
                  writes, suspended, startOrder >>

\* printReport(), on "r": the sorted copy of detectedDomains is printed, one
\* "- domain" line each; ev.out holds the lines
printReport ==
  /\ variant = "size"
  /\ pc = "running"
  /\ ev' = [NoEv EXCEPT !.op = "report",
                        !.effects = IF detectedDomains = {}
                                      THEN << "no domains" >>
                                      ELSE << "listed" >>,
                        !.out = {<< "-", " " >> \o Chars[dom] :
                                   dom \in detectedDomains}]
  /\ UNCHANGED << variant, pc, file, detectedDomains, knownAudioDomains,
                  candidateVideoRequests, loggedThisSession, domainWriteQueue,
                  writes, inflight, suspended, console, nreq, startOrder >>

RECURSIVE doubled(_)
\* field.replace(/"/g, '""')
doubled(cs) ==
  IF cs = << >> THEN << >>
  ELSE (IF Head(cs) = "\"" THEN << "\"", "\"" >> ELSE << Head(cs) >>)
         \o doubled(Tail(cs))

formatCsvField(field) == << "\"" >> \o doubled(Chars[field]) \o << "\"" >>

\* faulty guard: the export goes on with an empty set
nothingToExport_never(domains) == FALSE

\* if (!detectedDomains.size)
nothingToExport(domains) == domains = {}

\* faulty loop: the entries are taken out of the set as they are written
exportedFrom_drained(domains) == {}

\* for (const domain of detectedDomains): the set is read, not changed
exportedFrom(domains) == domains

\* exportDomainsCSV(), on "e": nothing is written for an empty set; else the
\* quoted lines go to the CSV file in one writeFile, whose failure is caught
\* and logged. ev.out holds the lines the file got, ev.effects the message.
\* The only statement after the await prints the message, so the call is
\* one step.
exportDomainsCSV(ok) ==
  /\ variant = "size"
  /\ pc = "running"
  /\ IF nothingToExport(detectedDomains)
       THEN /\ ev' = [NoEv EXCEPT !.op = "export",
                                  !.effects = << "nothing to export" >>]
            /\ UNCHANGED detectedDomains
       ELSE /\ ev' = [NoEv EXCEPT
                       !.op = "export",
                       !.effects = IF ok THEN << "exported" >>
                                         ELSE << "export failed" >>,
                       !.out = IF ok
                                 THEN {formatCsvField("domain")} \cup
                                      {formatCsvField(d) : d \in detectedDomains}
                                 ELSE {}]
            /\ detectedDomains' = exportedFrom(detectedDomains)
  /\ UNCHANGED << variant, pc, file, knownAudioDomains,
                  candidateVideoRequests, loggedThisSession, domainWriteQueue,
                  writes, inflight, suspended, console, nreq, startOrder >>

----------------------------------------------------------------------------
(* Pattern-based variant *)

\* core.init(): ensureConfigDir, then loadExistingDomains
loadExistingDomains(ok) ==
  /\ variant = "pattern"
  /\ pc = "init"
  /\ LET existingList == readJsonFile_index(file)
         loaded == IF existingList.array THEN existingList.items ELSE {}
     IN /\ detectedDomains' = loaded \cup ToSet(KNOWN_SPOTIFY_VIDEO_DOMAINS)
        /\ file' = IF detectedDomains' # {}
                     THEN writeJsonFile_index(file, detectedDomains', ok)
                     ELSE file
  /\ pc' = "running"
  /\ ev' = [NoEv EXCEPT !.op = "init"]
  /\ UNCHANGED << variant, knownAudioDomains, candidateVideoRequests,
                  loggedThisSession, domainWriteQueue, writes, inflight,
                  suspended, console, nreq, startOrder >>

\* shouldIgnore: the URL includes an entry of IGNORE_DOMAINS
shouldIgnoreOf == [u \in AllUrls |-> SomeIncluded(IGNORE_DOMAINS, Chars[u])]
shouldIgnore(url) == shouldIgnoreOf[url]

\* req.abort().catch(() => req.continue())
abortOrContinue(req) ==
  IF reqAbort(req).threw THEN reqContinue(reqAbort(req)) ELSE reqAbort(req)

\* faulty resolution: the request is left unresolved
continueQuietly_forgotten(req) == req

\* req.continue().catch(() => {})
continueQuietly(req) == [reqContinue(req) EXCEPT !.threw = FALSE]

\* page.on("request"). When abort and the fallback continue both reject, the
\* rejection is unhandled: the runtime either only warns or raises it as an
\* uncaught exception, whose handler shuts the process down (crash).
onRequest(url, pre, crash) ==
  /\ variant = "pattern"
  /\ pc = "running"
  /\ nreq < MaxRequests
  /\ LET req == NewRequest(url, pre)
         done == IF shouldIgnore(url) THEN abortOrContinue(req)
                 ELSE continueQuietly(req)
     IN /\ crash => done.threw
        /\ pc' = IF crash THEN "exited" ELSE pc
        /\ candidateVideoRequests' =
             IF ~ shouldIgnore(url) /\ likelyVideoRequestOf[url]
               THEN candidateVideoRequests \cup {url}
               ELSE candidateVideoRequests
        /\ inflight' =
             IF Outcome(done) \in {"continue", "other"}
               THEN inflight (+) SetToBag({url})
               ELSE inflight
        /\ ev' = [NoEv EXCEPT !.op = "request", !.url = url, !.pre = pre,
                              !.effects = done.effects,
                              !.cand = url \in candidateVideoRequests]
  /\ nreq' = nreq + 1
  /\ UNCHANGED << variant, file, detectedDomains, knownAudioDomains,
                  loggedThisSession, domainWriteQueue, writes, suspended,
                  console, startOrder >>

\* core.logDomain up to its first suspension: a new domain is added and its
\* write begins at once with the array [...detectedDomains]; loggedThisSession
\* is updated only after that write (resumeLogDomain)
core_logDomain(domain) ==
  IF domain = "" \/ domain = "unknown"
    THEN UNCHANGED << detectedDomains, console, writes, startOrder,
                      loggedThisSession >>
  ELSE IF domain \notin detectedDomains
    THEN /\ detectedDomains' = detectedDomains \cup {domain}
         /\ console' = console (+) Msg("new", domain)
         /\ writes' = Append(writes, [pred |-> 0,
                                      state |-> "running",
                                      data |-> detectedDomains',
                                      domain |-> domain])
         /\ startOrder' = Append(startOrder, Len(writes) + 1)
         /\ UNCHANGED loggedThisSession
  ELSE /\ console' = IF domain \notin loggedThisSession
                       THEN console (+) Msg("known", domain)
                       ELSE console
       /\ loggedThisSession' = loggedThisSession \cup {domain}
       /\ UNCHANGED << detectedDomains, writes, startOrder >>

\* core.logDomain awaits the write of a new domain
awaitsWrite(domain) ==
  domain # "" /\ domain # "unknown" /\ domain \notin detectedDomains

\* the response handler skips a URL that was not flagged
isFlagged(url) == url \in candidateVideoRequests

\* page.on("response")
onResponse(url, res) ==
  /\ variant = "pattern"
  /\ pc = "running"
  /\ BagIn(url, inflight)
  /\ inflight' = inflight (-) SetToBag({url})
  /\ LET domain == domainOf_index[url]
     IN /\ ev' = [NoEv EXCEPT !.op = "response", !.url = url,
                              !.domain = domain, !.res = res,
                              !.cand = url \in candidateVideoRequests,
                              !.vid = domain \in detectedDomains,
                              !.logd = domain \in loggedThisSession]
        /\ IF ~ isFlagged(url)
             THEN UNCHANGED << detectedDomains, candidateVideoRequests,
                               loggedThisSession, writes, suspended, console,
                               startOrder >>
           ELSE IF videoResponseOf_index[res]
             THEN \* await core.logDomain(domain); updateUI(); delete
                  /\ core_logDomain(domain)
                  /\ suspended' =
                       suspended (+)
                         SetToBag({[k |-> IF awaitsWrite(domain)
                                            THEN "afterWrite" ELSE "delete",
                                    url |-> url,
                                    domain |-> domain,
                                    w |-> IF awaitsWrite(domain)
                                            THEN Len(writes) + 1 ELSE 0]})
                  /\ UNCHANGED candidateVideoRequests
           ELSE /\ candidateVideoRequests' = candidateVideoRequests \ {url}
                /\ UNCHANGED << detectedDomains, loggedThisSession, writes,
                                suspended, console, startOrder >>
  /\ UNCHANGED << variant, pc, file, knownAudioDomains, domainWriteQueue,
                  nreq >>

\* core.logDomain resumes after its write: printDomainStats, then
\* loggedThisSession.add(domain); the response handler then awaits its return
resumeLogDomain(c) ==
  /\ variant = "pattern"
  /\ pc = "running"
  /\ BagIn(c, suspended)
  /\ c.k = "afterWrite"
  /\ writes[c.w].state = "done"
  /\ loggedThisSession' = loggedThisSession \cup {c.domain}
  /\ suspended' = (suspended (-) SetToBag({c}))
                    (+) SetToBag({[c EXCEPT !.k = "delete", !.w = 0]})
  /\ ev' = [NoEv EXCEPT !.op = "resumeLogDomain", !.url = c.url,
                        !.domain = c.domain]
  /\ UNCHANGED << variant, pc, file, detectedDomains, knownAudioDomains,
                  candidateVideoRequests, domainWriteQueue, writes, inflight,
                  console, nreq, startOrder >>

\* core.exportDomainsCSV(), on "e": nothing is written for an empty set;
\* else the header and the domains, unquoted, go to the CSV file. A failed
\* writeFile rejects the stdin listener's promise: the runtime either only
\* warns or raises it as an uncaught exception, whose handler shuts the
\* process down (crash). updateUI() afterwards only reads detectedDomains.
core_exportDomainsCSV(ok, crash) ==
  /\ variant = "pattern"
  /\ pc = "running"
  /\ crash => (~ ok /\ detectedDomains # {})
  /\ pc' = IF crash THEN "exited" ELSE pc
  /\ ev' = IF detectedDomains = {}
             THEN [NoEv EXCEPT !.op = "export",
                               !.effects = << "nothing to export" >>]
             ELSE [NoEv EXCEPT
                     !.op = "export",
                     !.effects = IF ok THEN << "exported" >>
                                       ELSE << "export failed" >>,
                     !.out = IF ok
                               THEN {Chars["domain"]} \cup
                                    {Chars[d] : d \in detectedDomains}
                               ELSE {}]
  /\ UNCHANGED << variant, file, detectedDomains, knownAudioDomains,
                  candidateVideoRequests, loggedThisSession, domainWriteQueue,
                  writes, inflight, suspended, console, nreq, startOrder >>

----------------------------------------------------------------------------
(* Specification *)

Next ==
  \/ \E ok \in BOOLEAN : init(ok)
  \/ \E url \in Urls, pre \in PreHandled : handleRequest(url, pre)
  \/ \E url \in BagToSet(inflight), res \in Responses :
        handleResponse(url, res)
  \/ \E c \in BagToSet(suspended) : resumeResponse(c)
  \/ \E url \in BagToSet(inflight) : handleFailedRequest(url)
  \/ \E i \in 1..Len(writes) : writeStart(i)
  \/ \E i \in 1..Len(writes), ok \in BOOLEAN : writeFinish(i, ok)
  \/ \E ok \in BOOLEAN : loadExistingDomains(ok)
  \/ \E url \in Urls, pre \in PreHandled, crash \in BOOLEAN :
        onRequest(url, pre, crash)
  \/ \E url \in BagToSet(inflight), res \in Responses : onResponse(url, res)
  \/ \E c \in BagToSet(suspended) : resumeLogDomain(c)

Spec == Init /\ [][Next]_vars

\* The size-heuristic variant on its own. oks: the outcomes a write of the
\* domain file can have.
InitSize == Init /\ variant = "size"

MonitorOn(urls, oks) ==
  \/ \E ok \in oks : init(ok)
  \/ \E url \in urls, pre \in PreHandled : handleRequest(url, pre)
  \/ \E url \in BagToSet(inflight), res \in Responses :
        handleResponse(url, res)
  \/ \E c \in BagToSet(suspended) : resumeResponse(c)
  \/ \E url \in BagToSet(inflight) : handleFailedRequest(url)
  \/ \E i \in 1..Len(writes) : writeStart(i)
  \/ \E i \in 1..Len(writes), ok \in oks : writeFinish(i, ok)

Monitor(oks) == MonitorOn(Urls, oks)

\* with requests for segments on a reference audio host and with an
\* ignore-list entry in the path
SegmentSpec == InitSize /\ [][MonitorOn(SegmentUrls, BOOLEAN)]_vars

\* sessions one after the other: the program runs, is shut down and is
\* started again
NextSessions == Monitor(BOOLEAN) \/ shutdown \/ browserClosed \/ restart

SessionsSpec == InitSize /\ [][NextSessions]_vars

\* the keyboard commands of a running session
NextCommands ==
  \/ Monitor(BOOLEAN)
  \/ printReport
  \/ \E ok \in BOOLEAN : exportDomainsCSV(ok)

CommandSpec == InitSize /\ [][NextCommands]_vars

\* exportDomainsCSV of either variant as a function of the registry it is
\* called with: the registry and the tracker are drawn from small sets, the
\* empty registry among them, and the domain file lists the registry
RegistryHosts == {LearnedHost, QuotedHost, "video.akamaized.net"}

InitExport ==
  /\ variant \in {"size", "pattern"}
  /\ pc = "running"
  /\ detectedDomains \in SUBSET RegistryHosts
  /\ file = [kind |-> "array", items |-> detectedDomains]
  /\ knownAudioDomains = {}
  /\ candidateVideoRequests \in SUBSET {U_track, U_new_eu}
  /\ loggedThisSession = {}
  /\ domainWriteQueue = 0
  /\ writes = << >>
  /\ inflight = SetToBag(candidateVideoRequests)
  /\ suspended = EmptyBag
  /\ console = EmptyBag
  /\ nreq = Cardinality(candidateVideoRequests)
  /\ startOrder = << >>
  /\ ev = NoEv

NextExport ==
  \/ \E ok \in BOOLEAN : exportDomainsCSV(ok)
  \/ \E ok \in BOOLEAN, crash \in BOOLEAN : core_exportDomainsCSV(ok, crash)

ExportSpec == InitExport /\ [][NextExport]_vars

\* The pattern-based variant on its own, with requests that the request
\* filter rejects for one reason each
InitPattern == Init /\ variant = "pattern"

NextPattern ==
  \/ \E ok \in BOOLEAN : loadExistingDomains(ok)
  \/ \E url \in FilterUrls, pre \in PreHandled, crash \in BOOLEAN :
        onRequest(url, pre, crash)
  \/ \E url \in BagToSet(inflight), res \in Responses : onResponse(url, res)
  \/ \E c \in BagToSet(suspended) : resumeLogDomain(c)
  \/ \E c \in BagToSet(suspended) : resumeResponse(c)
  \/ \E i \in 1..Len(writes), ok \in BOOLEAN : writeFinish(i, ok)

PatternSpec == InitPattern /\ [][NextPattern]_vars

\* What the event loop guarantees: a queued promise callback runs, a started
\* fs.writeFile settles, a resolved await resumes; and what the browser is
\* taken to guarantee: a request on the network ends with a response or a
\* request-failed event. Nothing is guaranteed about shutdown being asked
\* for, nor about the browser answering it.
Fairness(oks) ==
  /\ WF_vars(\E i \in 1..Len(writes) : writeStart(i))
  /\ WF_vars(\E i \in 1..Len(writes), ok \in oks : writeFinish(i, ok))
  /\ WF_vars(\E c \in BagToSet(suspended) : resumeResponse(c))
  /\ WF_vars(\E url \in BagToSet(inflight) :
               \/ \E res \in Responses : handleResponse(url, res)
               \/ handleFailedRequest(url))

\* with shutdown, and writes that may fail
NextLive == Monitor(BOOLEAN) \/ shutdown \/ browserClosed

FairSpec == InitSize /\ [][NextLive]_vars /\ Fairness(BOOLEAN)

\* with writes that succeed and a process that keeps running
NextDurable == Monitor({TRUE})

DurableSpec == InitSize /\ [][NextDurable]_vars /\ Fairness({TRUE})

\* with event handlers that may raise
NextFault ==
  \/ Monitor(BOOLEAN)
  \/ \E url \in Urls : handlerRaised("request", url)
  \/ \E kind \in {"response", "requestfailed"}, url \in BagToSet(inflight) :
        handlerRaised(kind, url)

FaultSpec == InitSize /\ [][NextFault]_vars

----------------------------------------------------------------------------
(* Properties *)

\* the last step handled a response to a URL that was in the tracker
CandidateResponse == ev.op = "response" /\ ev.cand

\* the response has status 200 or 206 and a content-type of the accepted list
AcceptedVideoMime(res) ==
  /\ res.status \in {200, 206}
  /\ res.headers.ct \in { << CT_mp4 >>, << CT_hls_upper >> }

\* C1: size-heuristic variant: once a host is in knownAudioDomains it stays
\* there, and no later request, response or request-failed event adds it to
\* detectedDomains, whatever the status and headers of the response.
C1_AudioNeverBecomesVideo ==
  [][variant = "size" =>
       \A h \in knownAudioDomains :
         /\ h \in knownAudioDomains'
         /\ h \notin detectedDomains => h \notin detectedDomains']_vars

\* a large video response arrived for a candidate whose host was already a
\* known audio domain
C1_Witness ==
  /\ variant = "size"
  /\ CandidateResponse
  /\ ev.aud
  /\ AcceptedVideoMime(ev.res)
  /\ ev.res.headers.cl = << CL_above >>
  /\ ev.domain \in knownAudioDomains

\* C2: size-heuristic variant: in every reachable state no host is in both
\* detectedDomains and knownAudioDomains.
C2_RegistrySetsDisjoint ==
  variant = "size" => detectedDomains \cap knownAudioDomains = {}

\* a host was marked as audio and another host was promoted to video in the
\* same session
C2_Witness ==
  /\ variant = "size"
  /\ knownAudioDomains # {}
  /\ \E d \in detectedDomains :
       d \notin ToSet(REFERENCE_VIDEO_DOMAINS) /\ d \in loggedThisSession

\* C3: size-heuristic variant: a candidate response with status 200 or 206
\* and an accepted video content-type, from a host in neither registry set,
\* puts the host in detectedDomains and not in knownAudioDomains when its
\* content-length is above the threshold, and in knownAudioDomains and not
\* in detectedDomains when it is below.
C3_SizeHeuristic ==
  (/\ variant = "size"
   /\ CandidateResponse
   /\ ~ ev.vid
   /\ ~ ev.aud
   /\ AcceptedVideoMime(ev.res))
  => /\ ev.res.headers.cl = << CL_above >> =>
          ev.domain \in detectedDomains \ knownAudioDomains
     /\ ev.res.headers.cl = << CL_below >> =>
          ev.domain \in knownAudioDomains \ detectedDomains

\* a response above the threshold promoted an unseen host after a response
\* below the threshold had marked another host as audio
C3_Witness ==
  /\ variant = "size"
  /\ CandidateResponse
  /\ ~ ev.vid
  /\ ~ ev.aud
  /\ AcceptedVideoMime(ev.res)
  /\ ev.res.headers.cl = << CL_above >>
  /\ ev.domain \in detectedDomains
  /\ knownAudioDomains # {}

\* the notifications that report a video detection
VideoNotices(b) ==
  [m \in {n \in BagToSet(b) : n.msg \in {"large", "new", "known"}} |-> b[m]]

\* the step handles a response with status 404 to a URL in the tracker, in
\* the size-heuristic variant
NotFoundStep ==
  /\ variant' = "size"
  /\ ev'.op = "response"
  /\ ev'.cand
  /\ ev'.res.status = 404

\* C4 as stated: size-heuristic variant: a response with status 404 to a
\* candidate URL changes neither registry set, logs no video notification and
\* leaves the session-logged set unchanged, for every registry state.
C4_NotFoundInconclusive_stated ==
  [][NotFoundStep =>
       /\ UNCHANGED << detectedDomains, knownAudioDomains, loggedThisSession >>
       /\ VideoNotices(console') = VideoNotices(console)]_vars

\* C4 as amended: size-heuristic variant: a response with status 404 to a
\* candidate URL changes neither registry set and queues no write; it logs
\* nothing and leaves the session-logged set unchanged unless the host is
\* already in detectedDomains, in which case the known-domain shortcut adds
\* the host to the session-logged set and logs "known domain" if it had not
\* been logged in this session.
C4_NotFoundNeverPromotes ==
  [][NotFoundStep =>
       /\ UNCHANGED << detectedDomains, knownAudioDomains, writes,
                       domainWriteQueue >>
       /\ IF ev'.vid /\ ~ ev'.aud
            THEN /\ loggedThisSession' = loggedThisSession \cup {ev'.domain}
                 /\ console' = IF ev'.logd THEN console
                               ELSE console (+) Msg("known", ev'.domain)
            ELSE UNCHANGED << loggedThisSession, console >>]_vars

\* a 404 response arrived for a candidate whose host was in detectedDomains
\* and had not been logged in this session: the shortcut logged it
C4_Witness ==
  /\ variant = "size"
  /\ CandidateResponse
  /\ ev.res.status = 404
  /\ ev.res.headers.ct = << CT_mp4 >>
  /\ ev.vid
  /\ ~ ev.logd
  /\ ev.domain \in loggedThisSession

\* C5: both variants: handling a response whose URL is not in
\* candidateVideoRequests leaves detectedDomains, knownAudioDomains,
\* loggedThisSession, candidateVideoRequests and the queue of writes
\* unchanged.
C5_UntrackedResponseChangesNothing ==
  [][(ev'.op = "response" /\ ~ ev'.cand) =>
       UNCHANGED << detectedDomains, knownAudioDomains, loggedThisSession,
                    candidateVideoRequests, writes, domainWriteQueue >>]_vars

\* a large video response arrived for a URL that is not in the tracker while
\* another URL is
C5_Witness ==
  /\ ev.op = "response"
  /\ ~ ev.cand
  /\ AcceptedVideoMime(ev.res)
  /\ ev.res.headers.cl = << CL_above >>
  /\ candidateVideoRequests # {}

\* the URLs whose host contains an entry of the ignore-list of either variant
UrlsOnIgnoredHost ==
  [v \in {"size", "pattern"} |->
     {u \in Urls :
        /\ UrlParses(u)
        /\ SomeIncluded(IF v = "size" THEN IGNORED_DOMAINS ELSE IGNORE_DOMAINS,
                        hostname(u))}]

\* C6: both variants: in every reachable state candidateVideoRequests holds
\* no URL whose host contains an ignore-list entry as a substring.
C6_IgnoredHostNeverTracked ==
  candidateVideoRequests \cap UrlsOnIgnoredHost[variant] = {}

\* a request to a host containing an ignore-list entry was handled while
\* another URL is in the tracker
C6_Witness ==
  /\ ev.op = "request"
  /\ ev.url \in UrlsOnIgnoredHost[variant]
  /\ ev.pre = "no"
  /\ candidateVideoRequests # {}

\* the URLs whose path ends in .css
CssUrls ==
  {u \in Urls : UrlParses(u) /\ EndsWith(pathname(u), Chars[".css"])}

\* the URLs that include an entry of the ignore-list of either variant
IgnoreListed ==
  [v \in {"size", "pattern"} |->
     {u \in Urls :
        SomeIncluded(IF v = "size" THEN IGNORED_DOMAINS ELSE IGNORE_DOMAINS,
                     Chars[u])}]

\* the last step handled a request that nobody had resolved before
FreshRequest == ev.op = "request" /\ ev.pre = "no"

\* C7: both variants: a request whose path ends in .css is never in
\* candidateVideoRequests, and the request is continued on the network.
C7_CssRejectedAndContinued ==
  /\ candidateVideoRequests \cap CssUrls = {}
  /\ (FreshRequest /\ ev.url \in CssUrls) => ev.effects = << "continue" >>

\* C8 as stated: size-heuristic variant: every request that matches the
\* ignore-list is aborted and never continued.
C8_IgnoredAborted_stated ==
  (variant = "size" /\ FreshRequest /\ ev.url \in IgnoreListed[variant])
  => ev.effects = << "abort" >>

\* C8 as amended: size-heuristic variant: every request that matches the
\* ignore-list is continued on the network, not aborted, and is not put in
\* candidateVideoRequests.
C8_IgnoredContinuedUntracked ==
  (variant = "size" /\ FreshRequest /\ ev.url \in IgnoreListed[variant])
  => /\ ev.effects = << "continue" >>
     /\ ev.url \notin candidateVideoRequests

\* a request matching the ignore-list was handled by the size-heuristic
\* variant
C8_Witness ==
  /\ variant = "size"
  /\ FreshRequest
  /\ ev.url \in IgnoreListed[variant]
  /\ ev.effects = << "continue" >>

\* C9: both variants: on every path through the request handler exactly one
\* resolution is in effect for the request when the handler is done.
C9_ResolvedExactlyOnce ==
  ev.op = "request" => Len(ev.effects) = 1

\* the pattern-based variant handled an ignored request that was already
\* resolved: abort failed and the fallback continue failed too
C9_Witness ==
  /\ variant = "pattern"
  /\ ev.op = "request"
  /\ ev.pre = "other"
  /\ ev.url \in IgnoreListed[variant]
  /\ ev.effects = << "other" >>

\* C10: size-heuristic variant: at most one write of the domain file is in
\* progress at any time, and the writes start in the order in which their
\* hosts were promoted.
C10_WritesSerializedFifo ==
  variant = "size" =>
    /\ Cardinality({i \in 1..Len(writes) : writes[i].state = "running"}) <= 1
    /\ \A k \in 1..Len(startOrder) : startOrder[k] = k

\* the write of a second promoted host waits while the write of the first
\* is in progress
C10_Witness ==
  /\ variant = "size"
  /\ Len(writes) = 2
  /\ writes[1].state = "running"
  /\ writes[2].state = "pending"

\* C12: size-heuristic variant: when the response handler that promoted a
\* newly-seen host finishes, the domain file contains that host.
C12_PersistedBeforeReturn ==
  (variant = "size" /\ ev.op = "resume")
  => ev.domain \in readJsonFile(file).items

\* C13: size-heuristic variant: a response to a candidate whose host is
\* already in detectedDomains takes the known-domain shortcut whatever its
\* status, content-type and content-length: both registry sets and the write
\* queue stay as they are, the host is recorded as logged (with the
\* known-domain notice when it had not been logged), and the URL leaves the
\* tracker.
C13_KnownVideoShortcut ==
  [][(variant = "size" /\ ev'.op = "response" /\ ev'.cand /\ ev'.vid) =>
       /\ UNCHANGED << detectedDomains, knownAudioDomains, writes,
                       domainWriteQueue, suspended >>
       /\ candidateVideoRequests' = candidateVideoRequests \ {ev'.url}
       /\ loggedThisSession' = loggedThisSession \cup {ev'.domain}
       /\ console' = IF ev'.logd THEN console
                     ELSE console (+) Msg("known", ev'.domain)]_vars

\* a response that the size heuristic would mark as audio arrived for a
\* candidate of a known video host: the host is no audio domain and the URL
\* left the tracker
C13_Witness ==
  /\ variant = "size"
  /\ CandidateResponse
  /\ ev.vid
  /\ AcceptedVideoMime(ev.res)
  /\ ev.res.headers.cl = << CL_below >>
  /\ ev.domain \notin knownAudioDomains
  /\ ev.url \notin candidateVideoRequests

\* the number of detection notices ("new" or "known") printed for a host
NoticesFor(domain) ==
  CopiesIn([msg |-> "new", domain |-> domain], console)
    + CopiesIn([msg |-> "known", domain |-> domain], console)

\* C14: pattern-based variant: at most one detection notice is printed for
\* a host in a session, under every interleaving of the response handlers.
C14_OneNoticePerHost ==
  variant = "pattern" =>
    \A n \in BagToSet(console) : NoticesFor(n.domain) <= 1

\* C17: size-heuristic variant: whatever the domain file holds that is not a
\* list (missing, empty, not JSON, JSON that is not an array), init does not
\* raise and goes on with detectedDomains equal to the reference domains.
C17_InitFallsBackToEmptyList ==
  [][(/\ variant = "size"
      /\ pc = "init"
      /\ file.kind \in {"missing", "empty", "invalid", "nonarray"})
     => /\ pc' = "running"
        /\ detectedDomains' = ToSet(REFERENCE_VIDEO_DOMAINS)]_vars

\* the hosts of the URLs a request can have
Hosts == {domainOf[u] : u \in Urls}

\* the process runs and every write queued so far has finished
NoWritePending ==
  pc = "running" /\ \A i \in 1..Len(writes) : writes[i].state = "done"

\* C11: size-heuristic variant, with writes that succeed, a process that
\* keeps running and a fairly scheduled queue: every promotion of an unknown
\* host queues one write for it; the file never loses a host and eventually
\* holds every host of detectedDomains; and whenever no write is pending,
\* reading the file yields exactly detectedDomains.
C11_PromotionIsPersisted ==
  /\ [][(pc = "running" /\ detectedDomains' # detectedDomains) =>
          /\ Len(writes') = Len(writes) + 1
          /\ writes'[Len(writes')].state = "pending"
          /\ detectedDomains' =
               detectedDomains \cup {writes'[Len(writes')].domain}]_vars
  /\ [][pc = "running" =>
          readJsonFile(file).items \subseteq readJsonFile(file').items]_vars
  /\ \A h \in Hosts :
       (pc = "running" /\ h \in detectedDomains)
         ~> (h \in readJsonFile(file).items)
  /\ [](NoWritePending =>
          /\ readJsonFile(file).array
          /\ readJsonFile(file).items = detectedDomains)

\* two hosts were promoted one after the other and both writes have
\* finished: the file holds both
C11_Witness ==
  /\ Len(writes) = 2
  /\ NoWritePending
  /\ writes[1].domain # writes[2].domain
  /\ {writes[1].domain, writes[2].domain} \subseteq readJsonFile(file).items

\* no request is on the network and no response handler is suspended
Quiescent == inflight = EmptyBag /\ suspended = EmptyBag

\* C15: size-heuristic variant, every request on the network ending with a
\* response or a request-failed event: a URL in the tracker is eventually
\* removed (unless the process exits first), and the tracker is empty
\* whenever no exchange is in flight and every handler has finished.
C15_TrackerDrains ==
  /\ [](Quiescent => candidateVideoRequests = {})
  /\ \A u \in Urls :
       (u \in candidateVideoRequests)
         ~> (u \notin candidateVideoRequests \/ pc = "exited")

\* two candidates were tracked; the last one left the tracker through the
\* request-failed handler, and nothing is in flight any more
C15_Witness ==
  /\ nreq >= 2
  /\ ev.op = "requestfailed"
  /\ ev.cand
  /\ Quiescent
  /\ candidateVideoRequests = {}
  /\ loggedThisSession # {}

ErrorLogged == \E n \in BagToSet(console) : n.msg = "error"

\* the event of the last step was handled as the handlers prescribe
HandledNormally ==
  /\ ev.op = "request" =>
       /\ Len(ev.effects) = 1
       /\ ev.pre = "no" => ev.effects = << "continue" >>
       /\ (~ isIgnored(ev.url) /\ ~ notVideoRequestOf[ev.url]) =>
            ev.url \in candidateVideoRequests
  /\ (CandidateResponse /\ ~ ev.vid /\ ~ ev.aud /\ AcceptedVideoMime(ev.res)) =>
       /\ ev.res.headers.cl = << CL_above >> => ev.domain \in detectedDomains
       /\ ev.res.headers.cl = << CL_below >> => ev.domain \in knownAudioDomains
  /\ ev.op = "requestfailed" => ev.url \notin candidateVideoRequests

\* C18: size-heuristic variant: when the handler of a request, response or
\* request-failed event raises, the process keeps running and the registry,
\* the tracker and the write queue are left as they were; every event after
\* it, of each of the three kinds, is handled as usual.
C18_ErrorCaughtPerEvent ==
  /\ [][ev'.op = "raised" =>
          /\ pc' = pc
          /\ UNCHANGED << file, detectedDomains, knownAudioDomains,
                          candidateVideoRequests, loggedThisSession,
                          domainWriteQueue, writes, suspended >>]_vars
  /\ [](ErrorLogged => (Monitoring /\ HandledNormally))

\* the handler of a response event raised; a later request was tracked and
\* its response promoted its host
C18_Witness ==
  /\ CopiesIn([msg |-> "error", domain |-> "response"], console) = 1
  /\ CandidateResponse
  /\ ~ ev.vid
  /\ ev.res.headers.cl = << CL_above >>
  /\ ev.domain \in detectedDomains

\* C19: size-heuristic variant: a write of the domain file that fails
\* changes nothing in memory (the promoted host stays in detectedDomains),
\* stops no handler and does not end the process; and every write queued is
\* eventually executed, those queued behind a failed write included (unless
\* the process exits first).
C19_FailedWriteIsContained ==
  /\ [][(ev'.op = "writeFinish" /\ ev'.effects = << "failed" >>) =>
          /\ pc' = pc
          /\ Len(writes') = Len(writes)
          /\ UNCHANGED << file, detectedDomains, knownAudioDomains,
                          candidateVideoRequests, loggedThisSession,
                          domainWriteQueue, suspended, console >>]_vars
  /\ \A j \in 1..MaxRequests :
       (Len(writes) >= j)
         ~> (pc = "exited" \/ (Len(writes) >= j /\ writes[j].state = "done"))

\* the first write has finished without the file holding its host (it
\* failed), the host is still in detectedDomains, and the write queued
\* behind it is in progress
C19_Witness ==
  /\ Len(writes) = 2
  /\ writes[1].state = "done"
  /\ writes[1].domain \in detectedDomains
  /\ writes[1].domain \notin readJsonFile(file).items
  /\ writes[2].state = "running"

\* C20: size-heuristic variant: once shutdown has started, the process
\* eventually exits, whether or not the browser answers.
C20_ShutdownExits == (pc = "closing") ~> (pc = "exited")

\* C21: size-heuristic variant: when shutdown exits the process, at most one
\* queued write of the domain file has not completed.
C21_AtMostOneWriteLost ==
  (variant = "size" /\ ev.op = "exit")
  => Cardinality({i \in 1..Len(writes) : writes[i].state # "done"}) <= 1

\* C25: pattern-based variant: a response to a candidate with a status other
\* than 200 and 206 adds no host to detectedDomains and starts no write,
\* whatever its content-type.
C25_OnlyOkAndPartialEligible ==
  [][(/\ variant = "pattern"
      /\ ev'.op = "response"
      /\ ev'.cand
      /\ ev'.res.status \notin {200, 206})
     => UNCHANGED << detectedDomains, writes, file >>]_vars

\* C28: size-heuristic variant: a candidate response with status 200 or 206
\* and an accepted video content-type (the playlist types included) from a
\* host in neither registry set promotes the host to detectedDomains only
\* when its content-length is a number above the threshold; a length equal
\* to the threshold, a missing one and one that is no number put the host
\* in knownAudioDomains, and a host in knownAudioDomains is never added to
\* detectedDomains afterwards.
C28_StrictlyAboveThreshold ==
  /\ []((/\ variant = "size"
         /\ CandidateResponse
         /\ ~ ev.vid
         /\ ~ ev.aud
         /\ AcceptedVideoMime(ev.res))
        => IF ev.res.headers.cl = << CL_above >>
             THEN ev.domain \in detectedDomains \ knownAudioDomains
             ELSE ev.domain \in knownAudioDomains \ detectedDomains)
  /\ [][variant = "size" =>
          \A h \in knownAudioDomains \ detectedDomains :
            h \in knownAudioDomains' \ detectedDomains']_vars

\* a response whose content-length equals the threshold marked an unseen
\* host as audio, after a playlist response without content-length or a
\* response with a length that is no number had marked another host
C28_Witness ==
  /\ variant = "size"
  /\ CandidateResponse
  /\ ~ ev.vid
  /\ ~ ev.aud
  /\ AcceptedVideoMime(ev.res)
  /\ ev.res.headers.cl = << CL_at_threshold >>
  /\ ev.domain \in knownAudioDomains
  /\ Cardinality(knownAudioDomains) = 2
  /\ CopiesIn([msg |-> "audio", domain |-> ev.domain], console) = 1

\* C29: size-heuristic variant: a URL that cannot be parsed is never in the
\* tracker, and the placeholder host "unknown" is never in detectedDomains,
\* in knownAudioDomains or in the domain file.
C29_UnparseableUrlIsNoMatch ==
  variant = "size" =>
    /\ \A u \in candidateVideoRequests : UrlParses(u)
    /\ "unknown" \notin detectedDomains \cup knownAudioDomains
    /\ "unknown" \notin readJsonFile(file).items

\* the request handler accepts the URL as a candidate
Accepted(url) == ~ isIgnored(url) /\ ~ notVideoRequestOf[url]

\* C30: size-heuristic variant: the response to every request that was
\* accepted as a candidate finds its URL in the tracker and is classified,
\* also when requests in flight share a URL.
C30_AcceptedResponseIsClassified ==
  (variant = "size" /\ ev.op = "response" /\ Accepted(ev.url)) => ev.cand

\* C22: size-heuristic variant: after init every reference audio domain is
\* in knownAudioDomains, and none of them is ever in detectedDomains.
C22_ReferenceAudioSeeded ==
  (variant = "size" /\ pc = "running")
  => /\ ToSet(REFERENCE_AUDIO_DOMAINS) \subseteq knownAudioDomains
     /\ ToSet(REFERENCE_AUDIO_DOMAINS) \cap detectedDomains = {}

\* the host of the URL contains an ignore-list entry
HostIgnoredOf ==
  [u \in AllUrls |-> SomeIncluded(IGNORED_DOMAINS, Chars[domainOf[u]])]

\* C27: size-heuristic variant: a request is ignored exactly when its host
\* contains an ignore-list entry; any other request, unless rejected by its
\* extension, is in the tracker when the handler is done.
C27_IgnoreDecidedByHost ==
  (variant = "size" /\ ev.op = "request")
  => (ev.url \in candidateVideoRequests
        <=> (~ HostIgnoredOf[ev.url] /\ ~ notVideoRequestOf[ev.url]))

\* C23: size-heuristic variant: the confirmed-audio set a session ended with
\* is contained in knownAudioDomains when the next session's init has run.
C23_AudioSetSurvivesRestart ==
  [][(variant = "size" /\ ev.op = "restart" /\ ev'.op = "init"
        /\ pc' = "running")
     => ev.prev \subseteq knownAudioDomains']_vars

\* C24: both variants: a CSV export while detectedDomains is empty writes no
\* file, reports that there is nothing to export, and leaves the registry,
\* the tracker, the session-logged set and the domain file as they were.
C24_EmptyExportWritesNothing ==
  [][(ev'.op = "export" /\ detectedDomains = {})
     => /\ ev'.out = {}
        /\ ev'.effects = << "nothing to export" >>
        /\ UNCHANGED << detectedDomains, knownAudioDomains,
                        candidateVideoRequests, loggedThisSession, file,
                        writes, pc >>]_vars

C24_Witness ==
  /\ ev.op = "export"
  /\ detectedDomains = {}
  /\ ev.effects = << "nothing to export" >>
  /\ candidateVideoRequests # {}

\* C26: size-heuristic variant, after init: detectedDomains and
\* knownAudioDomains change only in response-handler steps; the tracker grows
\* only in request-handler steps and shrinks only in response-handler and
\* request-failed steps; request and request-failed steps leave both registry
\* sets alone; report and CSV export leave registry, tracker and
\* session-logged set alone.
C26_SingleWriterPerComponent ==
  [][(variant = "size" /\ pc # "init")
     => /\ (detectedDomains' # detectedDomains
              \/ knownAudioDomains' # knownAudioDomains)
            => ev'.op \in {"response", "resume"}
        /\ ~ (candidateVideoRequests' \subseteq candidateVideoRequests)
            => ev'.op = "request"
        /\ ~ (candidateVideoRequests \subseteq candidateVideoRequests')
            => ev'.op \in {"response", "resume", "requestfailed"}
        /\ ev'.op \in {"request", "requestfailed"}
            => UNCHANGED << detectedDomains, knownAudioDomains >>
        /\ ev'.op \in {"report", "export"}
            => UNCHANGED << detectedDomains, knownAudioDomains,
                            candidateVideoRequests, loggedThisSession >>]_vars

C26_Witness ==
  /\ variant = "size"
  /\ ev.op = "export"
  /\ ev.effects = << "exported" >>
  /\ knownAudioDomains # {}
  /\ candidateVideoRequests # {}
  /\ loggedThisSession # {}

\* every write of the domain file has settled
AllWritesSettled == \A i \in 1..Len(writes) : writes[i].state = "done"

\* C31: pattern-based variant: a completed write never takes a host out of
\* the domain file, and when the last write to complete has been written
\* the file lists exactly detectedDomains. A write that fails leaves the
\* file as it was.
C31_FileNeverLosesHost ==
  /\ [][(variant = "pattern" /\ ev'.op = "writeFinish")
        => readJsonFile_index(file).items
             \subseteq readJsonFile_index(file').items]_vars
  /\ []((variant = "pattern" /\ ev.op = "writeFinish"
           /\ ev.effects = << "written" >> /\ AllWritesSettled)
        => readJsonFile_index(file).items = detectedDomains)

\* the four conditions on a request URL, each computed on its own: the
\* host has no skip-list entry and has a known video domain in it, the path
\* has a required segment in it and ends in a video extension
HostSkipped(u) == SomeIncluded(SKIP_DOMAINS, hostname(u))
HostKnown(u) == SomeIncluded(KNOWN_SPOTIFY_VIDEO_DOMAINS, hostname(u))
PathHasSegment(u) ==
  SomeIncluded(REQUIRED_VIDEO_PATH_SEGMENTS, ToLowerCase(pathname(u)))
PathEndsInVideoExtension(u) ==
  \E k \in 1..Len(VIDEO_EXTENSIONS) :
    EndsWith(ToLowerCase(pathname(u)), Chars[VIDEO_EXTENSIONS[k]])

MayBeTrackedOf ==
  [u \in AllUrls |->
     /\ UrlParses(u)
     /\ ~ HostSkipped(u)
     /\ HostKnown(u)
     /\ PathHasSegment(u)
     /\ PathEndsInVideoExtension(u)]

\* C32: pattern-based variant: every URL in the tracker meets the four
\* conditions, and every host added to detectedDomains after init has a
\* known video domain in it.
C32_TrackedOnlyIfLikelyVideo ==
  /\ []((variant = "pattern")
        => \A u \in candidateVideoRequests : MayBeTrackedOf[u])
  /\ [][(variant = "pattern" /\ pc = "running")
        => \A h \in detectedDomains' \ detectedDomains :
             SomeIncluded(KNOWN_SPOTIFY_VIDEO_DOMAINS, Chars[h])]_vars

C32_Witness ==
  /\ variant = "pattern"
  /\ nreq = 2
  /\ BagIn(U_unknown_host, inflight)
  /\ U_unknown_host \notin candidateVideoRequests
  /\ writes # << >>
  /\ LearnedHost \in detectedDomains
  /\ LearnedHost \notin readJsonFile_index(file).items

====
